---- MODULE Spec2Model ----
(***************************************************************************)
(* A model of ring-queue (src/src/lib.rs): RingQueue<T, LEN>, a fixed-size *)
(* concurrent queue made of a Mutex<Inner<T, LEN>> and two Condvars, and   *)
(* Inner<T, LEN>, the ring buffer of MaybeUninit<T> slots it protects.     *)
(*                                                                         *)
(* The threads are those of tests::it_works_with_multiple_senders (two     *)
(* senders, here with two receivers) plus one thread that clones the queue *)
(* and then uses and drops its clone.                                      *)
(***************************************************************************)
EXTENDS Integers, Sequences, FiniteSets

\* ------------------------------------------------------------------ bounds

\* The largest capacity LEN a queue is created with (LEN ranges over 0..MaxLEN).
MaxLEN == 2
\* The number of push calls of each sender and of pop calls of each receiver.
NOps == 2
\* The number of push/pop calls the cloning thread makes on its clone.
NCloneOps == 2

\* ----------------------------------------------------------------- threads

Senders == {"Sender1", "Sender2"}
Receivers == {"Receiver1", "Receiver2"}
Cloner == "Cloner"
Workers == Senders \cup Receivers
Threads == Workers \cup {Cloner}

\* The two RingQueue objects: the one the tests create, and the clone.
Original == "original"
TheClone == "clone"
Queues == {Original, TheClone}

\* The sets of threads a run spawns: the four workers on their own, or one
\* sender and one receiver beside the cloning thread.
Crews == {Workers, {"Sender1", "Receiver1", Cloner}}

VARIABLES
    LEN,        \* the const generic parameter LEN of the queue's type
    crew,       \* the threads this run spawns
    inner,      \* inner[q]: the Inner behind q.inner: [values, start, size]
    mutex,      \* mutex[q]: the set of threads holding q.inner's lock
    poisoned,   \* poisoned[q]: a thread panicked while holding q.inner's lock
    pop_cond,   \* pop_cond[q]: the threads blocked in q.pop_cond.wait
    push_cond,  \* push_cond[q]: the threads blocked in q.push_cond.wait
    life,       \* life[q]: "none" (not constructed), "live" or "dropped"
    released,   \* released[q]: the elements whose destructor ran at q's drop
    pc,         \* pc[t]: where thread t is in its current call
    calls,      \* calls[t]: the number of calls t has returned from
    ret,        \* ret[t]: the local `ret` of t's pop (<<v>>), or <<>>
    waited,     \* waited[t]: t's current call has blocked in a Condvar wait
    cl,         \* the local state of the cloner's Inner::clone
    pushed,     \* pushed[q]: the values written by Inner::push, in lock order
    popped,     \* popped[q]: the values taken by Inner::pop, in lock order
    lastPush,   \* lastPush[q]: the last Inner operation on q was a push
    snapshot    \* the original's contents when the cloner took its lock

vars == <<LEN, crew, inner, mutex, poisoned, pop_cond, push_cond, life, released,
          pc, calls, ret, waited, cl, pushed, popped, lastPush, snapshot>>

\* ------------------------------------------------------------ MaybeUninit

\* MaybeUninit::uninit(): a slot holding no value.
Uninit == <<>>
\* MaybeUninit::new(value)
MaybeInit(v) == <<v>>

\* The value sender (or cloner) t passes to its k-th push, k from 0: the
\* ranges 0.. and 10.. of the tests, one decade per thread.
ThreadIndex(t) ==
    CASE t = "Sender1" -> 0
      [] t = "Sender2" -> 1
      [] t = "Receiver1" -> 2
      [] t = "Receiver2" -> 3
      [] OTHER -> 4
PushValue(t, k) == 10 * ThreadIndex(t) + k
AllValues == {PushValue(t, k) : t \in Threads, k \in 0..(NOps + NCloneOps)}

\* MaybeUninit::assume_init on a slot: its value; on an uninitialized slot
\* the behaviour is undefined, and any value may come out.
AssumeInit(slot) == IF slot # Uninit THEN {slot[1]} ELSE AllValues

\* ------------------------------------------------------------------ Inner

Slots == 0..(LEN - 1)

\* Inner::default
InnerDefault == [values |-> [i \in Slots |-> Uninit], start |-> 0, size |-> 0]

\* The index counted from slot 0 instead of from `start`.
PushEndNoStart(in) == in.size

\* The index with `>` for `>=` in the test for wrapping.
PushEndLateWrap(in) ==
    IF in.size > LEN - in.start
    THEN in.size - (LEN - in.start)
    ELSE in.start + in.size

\* The index Inner::push writes to.
PushEnd(in) ==
    IF in.size >= LEN - in.start
    THEN in.size - (LEN - in.start)
    ELSE in.start + in.size

\* A push that writes over the first element of the window.
InnerPushAtStart(in, v) ==
    [in EXCEPT !.values[in.start] = MaybeInit(v), !.size = in.size + 1]

\* A push that forgets `self.size += 1`.
InnerPushNoCount(in, v) == [in EXCEPT !.values[PushEnd(in)] = MaybeInit(v)]

\* Inner::push
InnerPush(in, v) ==
    [in EXCEPT !.values[PushEnd(in)] = MaybeInit(v), !.size = in.size + 1]

\* The slot read through `self.start` after it was advanced.
OldStartAfter(in) == (in.start + 1) % LEN

\* `let old_start = self.start`: the index of the slot Inner::pop takes.
OldStart(in) == in.start

\* A pop that leaves the value in the slot it took it from.
InnerPopKeepsSlot(in) ==
    [in EXCEPT !.size = in.size - 1, !.start = (in.start + 1) % LEN]

\* A pop that forgets `self.size -= 1`.
InnerPopKeepsSize(in) ==
    [in EXCEPT !.start = (in.start + 1) % LEN,
               !.values[OldStart(in)] = Uninit]

\* Inner::pop: the Inner it leaves (the value it returns is
\* AssumeInit(in.values[OldStart(in)])).
InnerPop(in) ==
    [in EXCEPT !.size = in.size - 1,
               !.start = (in.start + 1) % LEN,
               !.values[OldStart(in)] = Uninit]

RECURSIVE Range(_, _)
Range(a, b) == IF a >= b THEN <<>> ELSE <<a>> \o Range(a + 1, b)

\* A clone that goes over the whole array.
CloneIndicesWhole(in) == Range(0, LEN)

\* The indices Inner::clone iterates over, in order.
CloneIndices(in) ==
    IF in.size > LEN - in.start
    THEN Range(in.start, LEN) \o Range(0, in.size - (LEN - in.start))
    ELSE Range(in.start, in.start + in.size)

\* What dropping an Inner releases: Inner has no Drop impl and its only field
\* with drop glue is an array of MaybeUninit<T>, which never drops its value.
InnerDrop(in) == <<>>

\* The elements of an Inner in pop order: the window of `size` slots from
\* `start`, wrapping (the INVARIANT comment of Inner).
Contents(in) == [i \in 1..in.size |-> in.values[(in.start + i - 1) % LEN]]

\* ------------------------------------------------------------- primitives

\* A clone that is one more handle on the original's Inner, lock and
\* conditions.
TargetShared(t) == Original

\* The queue a thread's push and pop calls are made on: the workers share
\* the original, the cloner uses its own clone.
Target(t) == IF t = Cloner THEN TheClone ELSE Original

\* A lock that excludes nobody.
CanLockAlways(q) == TRUE

\* Mutex::lock returns once no other thread holds the lock.
CanLock(q) == mutex[q] = {}

\* A lock taken as if it were never poisoned.
PoisonIgnored(q) == FALSE

\* Mutex::lock returns Err: a thread panicked while it held the lock.
IsPoisoned(q) == poisoned[q]

\* A pop that never waits.
PopBlockedNever(in) == FALSE

\* The predicate of pop's wait_while: `inner.size == 0`.
PopBlocked(in) == in.size = 0

\* A push that never waits.
PushBlockedNever(in) == FALSE

\* A push that blocks only above LEN.
PushBlockedOverfull(in) == in.size > LEN

\* The predicate of push's wait_while: `inner.size == LEN`.
PushBlocked(in) == in.size = LEN

\* Condvar::notify_all: every waiter is woken.
NotifyAll(waiters) == {waiters}

\* Condvar::notify_one on a condition whose blocked threads are `waiters`:
\* the sets of threads it may wake (one of the waiters; none if none waits).
NotifyOne(waiters) == IF waiters = {} THEN {{}} ELSE {{w} : w \in waiters}

\* A thread leaving Condvar::wait goes back to acquiring the lock.
Relock(p) == IF p = "push_wait" THEN "push_lock" ELSE "pop_lock"

\* The condition a pop signals, as the sets of threads Condvar::notify_one
\* may wake.
PopSignal(q) == NotifyOne(push_cond[q])

\* A push that signals nobody.
PushSignalNobody(q) == {{}}

\* The condition a push signals, as the sets of threads Condvar::notify_one
\* may wake.
PushSignal(q) == NotifyOne(pop_cond[q])

NoClone == [values |-> <<>>, todo |-> <<>>]

Init ==
    /\ LEN \in 0..MaxLEN
    /\ crew \in Crews
    /\ inner = [q \in Queues |-> InnerDefault]
    /\ mutex = [q \in Queues |-> {}]
    /\ poisoned = [q \in Queues |-> FALSE]
    /\ pop_cond = [q \in Queues |-> {}]
    /\ push_cond = [q \in Queues |-> {}]
    /\ life = [q \in Queues |-> IF q = Original THEN "live" ELSE "none"]
    /\ released = [q \in Queues |-> <<>>]
    /\ pc = [t \in Threads |-> "idle"]
    /\ calls = [t \in Threads |-> 0]
    /\ ret = [t \in Threads |-> <<>>]
    /\ waited = [t \in Threads |-> FALSE]
    /\ cl = NoClone
    /\ pushed = [q \in Queues |-> <<>>]
    /\ popped = [q \in Queues |-> <<>>]
    /\ lastPush = [q \in Queues |-> FALSE]
    /\ snapshot = <<>>

\* The calls left to thread t.
CallsLeft(t) == calls[t] < (IF t = Cloner THEN NCloneOps ELSE NOps)

\* ------------------------------------------------------- RingQueue::push

\* push is called: `println!("Pushing ...")`, then the lock is asked for.
PushCall(t) ==
    /\ t \in Senders \cup {Cloner}
    /\ t \in crew
    /\ pc[t] = "idle"
    /\ CallsLeft(t)
    /\ life[Target(t)] = "live"
    /\ pc' = [pc EXCEPT ![t] = "push_lock"]
    /\ UNCHANGED <<LEN, crew, poisoned, inner, mutex, pop_cond, push_cond, life, released,
                   calls, ret, waited, cl, pushed, popped, lastPush, snapshot>>

\* `self.inner.lock()`, and the lock taken again when a wait ends.
PushLock(t) ==
    /\ pc[t] = "push_lock"
    /\ CanLock(Target(t))
    /\ ~IsPoisoned(Target(t))
    /\ mutex' = [mutex EXCEPT ![Target(t)] = @ \cup {t}]
    /\ pc' = [pc EXCEPT ![t] = "push_check"]
    /\ UNCHANGED <<LEN, crew, poisoned, inner, pop_cond, push_cond, life, released, calls,
                   ret, waited, cl, pushed, popped, lastPush, snapshot>>

\* One turn of wait_while: the predicate is evaluated under the lock; while
\* it holds the thread waits on push_cond, which releases the lock.
PushCheck(t) ==
    /\ pc[t] = "push_check"
    /\ IF PushBlocked(inner[Target(t)])
       THEN /\ mutex' = [mutex EXCEPT ![Target(t)] = @ \ {t}]
            /\ push_cond' = [push_cond EXCEPT ![Target(t)] = @ \cup {t}]
            /\ waited' = [waited EXCEPT ![t] = TRUE]
            /\ pc' = [pc EXCEPT ![t] = "push_wait"]
       ELSE /\ pc' = [pc EXCEPT ![t] = "push_inner"]
            /\ UNCHANGED <<mutex, push_cond, waited>>
    /\ UNCHANGED <<LEN, crew, poisoned, inner, pop_cond, life, released, calls, ret, cl,
                   pushed, popped, lastPush, snapshot>>

\* `inner.push(value)`
PushInner(t) ==
    /\ pc[t] = "push_inner"
    /\ LET q == Target(t)
           v == PushValue(t, calls[t])
       IN /\ inner' = [inner EXCEPT ![q] = InnerPush(@, v)]
          /\ pushed' = [pushed EXCEPT ![q] = Append(@, v)]
          /\ lastPush' = [lastPush EXCEPT ![q] = TRUE]
    /\ pc' = [pc EXCEPT ![t] = "push_notify"]
    /\ UNCHANGED <<LEN, crew, poisoned, mutex, pop_cond, push_cond, life, released, calls,
                   ret, waited, cl, popped, snapshot>>

\* `self.pop_cond.notify_one()`
PushNotify(t) ==
    /\ pc[t] = "push_notify"
    /\ \E woken \in PushSignal(Target(t)) :
          /\ pop_cond' = [pop_cond EXCEPT ![Target(t)] = @ \ woken]
          /\ pc' = [w \in Threads |->
                       IF w = t THEN "push_return"
                       ELSE IF w \in woken THEN Relock(pc[w]) ELSE pc[w]]
    /\ UNCHANGED <<LEN, crew, poisoned, inner, mutex, push_cond, life, released, calls, ret,
                   waited, cl, pushed, popped, lastPush, snapshot>>

\* push returns: the guard goes out of scope and the lock is released.
PushReturn(t) ==
    /\ pc[t] = "push_return"
    /\ mutex' = [mutex EXCEPT ![Target(t)] = @ \ {t}]
    /\ calls' = [calls EXCEPT ![t] = @ + 1]
    /\ waited' = [waited EXCEPT ![t] = FALSE]
    /\ pc' = [pc EXCEPT ![t] = "idle"]
    /\ UNCHANGED <<LEN, crew, poisoned, inner, pop_cond, push_cond, life, released, ret, cl,
                   pushed, popped, lastPush, snapshot>>

\* -------------------------------------------------------- RingQueue::pop

\* pop is called: the lock is asked for.
PopCall(t) ==
    /\ t \in Receivers \cup {Cloner}
    /\ t \in crew
    /\ pc[t] = "idle"
    /\ CallsLeft(t)
    /\ life[Target(t)] = "live"
    /\ pc' = [pc EXCEPT ![t] = "pop_lock"]
    /\ UNCHANGED <<LEN, crew, poisoned, inner, mutex, pop_cond, push_cond, life, released,
                   calls, ret, waited, cl, pushed, popped, lastPush, snapshot>>

\* `self.inner.lock()`, and the lock taken again when a wait ends.
PopLock(t) ==
    /\ pc[t] = "pop_lock"
    /\ CanLock(Target(t))
    /\ ~IsPoisoned(Target(t))
    /\ mutex' = [mutex EXCEPT ![Target(t)] = @ \cup {t}]
    /\ pc' = [pc EXCEPT ![t] = "pop_check"]
    /\ UNCHANGED <<LEN, crew, poisoned, inner, pop_cond, push_cond, life, released, calls,
                   ret, waited, cl, pushed, popped, lastPush, snapshot>>

\* A wait with `if` for `while`: the predicate is evaluated before the wait
\* only, and a thread that comes back from the wait goes on to Inner::pop.
PopCheckOnce(t) ==
    /\ pc[t] = "pop_check"
    /\ IF PopBlocked(inner[Target(t)]) /\ ~waited[t]
       THEN /\ mutex' = [mutex EXCEPT ![Target(t)] = @ \ {t}]
            /\ pop_cond' = [pop_cond EXCEPT ![Target(t)] = @ \cup {t}]
            /\ waited' = [waited EXCEPT ![t] = TRUE]
            /\ pc' = [pc EXCEPT ![t] = "pop_wait"]
       ELSE /\ pc' = [pc EXCEPT ![t] = "pop_inner"]
            /\ UNCHANGED <<mutex, pop_cond, waited>>
    /\ UNCHANGED <<LEN, crew, poisoned, inner, push_cond, life, released,
                   calls, ret, cl, pushed, popped, lastPush, snapshot>>

\* One turn of wait_while: the predicate is evaluated under the lock; while
\* it holds the thread waits on pop_cond, which releases the lock.
PopCheck(t) ==
    /\ pc[t] = "pop_check"
    /\ IF PopBlocked(inner[Target(t)])
       THEN /\ mutex' = [mutex EXCEPT ![Target(t)] = @ \ {t}]
            /\ pop_cond' = [pop_cond EXCEPT ![Target(t)] = @ \cup {t}]
            /\ waited' = [waited EXCEPT ![t] = TRUE]
            /\ pc' = [pc EXCEPT ![t] = "pop_wait"]
       ELSE /\ pc' = [pc EXCEPT ![t] = "pop_inner"]
            /\ UNCHANGED <<mutex, pop_cond, waited>>
    /\ UNCHANGED <<LEN, crew, poisoned, inner, push_cond, life, released, calls, ret, cl,
                   pushed, popped, lastPush, snapshot>>

\* `let ret = inner.pop()`
PopInner(t) ==
    /\ pc[t] = "pop_inner"
    /\ LET q == Target(t)
       IN \E v \in AssumeInit(inner[q].values[OldStart(inner[q])]) :
             /\ inner' = [inner EXCEPT ![q] = InnerPop(@)]
             /\ ret' = [ret EXCEPT ![t] = <<v>>]
             /\ popped' = [popped EXCEPT ![q] = Append(@, v)]
             /\ lastPush' = [lastPush EXCEPT ![q] = FALSE]
    /\ pc' = [pc EXCEPT ![t] = "pop_notify"]
    /\ UNCHANGED <<LEN, crew, poisoned, mutex, pop_cond, push_cond, life, released, calls,
                   waited, cl, pushed, snapshot>>

\* `self.push_cond.notify_one()`
PopNotify(t) ==
    /\ pc[t] = "pop_notify"
    /\ \E woken \in PopSignal(Target(t)) :
          /\ push_cond' = [push_cond EXCEPT ![Target(t)] = @ \ woken]
          /\ pc' = [w \in Threads |->
                       IF w = t THEN "pop_println"
                       ELSE IF w \in woken THEN Relock(pc[w]) ELSE pc[w]]
    /\ UNCHANGED <<LEN, crew, poisoned, inner, mutex, pop_cond, life, released, calls, ret,
                   waited, cl, pushed, popped, lastPush, snapshot>>

\* `println!("Popping ...")`, still under the lock.
PopPrintln(t) ==
    /\ pc[t] = "pop_println"
    /\ pc' = [pc EXCEPT ![t] = "pop_return"]
    /\ UNCHANGED <<LEN, crew, poisoned, inner, mutex, pop_cond, push_cond, life, released,
                   calls, ret, waited, cl, pushed, popped, lastPush, snapshot>>

\* pop returns `ret`: the guard goes out of scope and the lock is released.
PopReturn(t) ==
    /\ pc[t] = "pop_return"
    /\ mutex' = [mutex EXCEPT ![Target(t)] = @ \ {t}]
    /\ calls' = [calls EXCEPT ![t] = @ + 1]
    /\ ret' = [ret EXCEPT ![t] = <<>>]
    /\ waited' = [waited EXCEPT ![t] = FALSE]
    /\ pc' = [pc EXCEPT ![t] = "idle"]
    /\ UNCHANGED <<LEN, crew, poisoned, inner, pop_cond, push_cond, life, released, cl,
                   pushed, popped, lastPush, snapshot>>

\* ------------------------------------------------------ Condvar wake-ups

\* Condvar::wait may return without any notify (a spurious wake-up).
SpuriousWake(t) ==
    /\ pc[t] \in {"push_wait", "pop_wait"}
    /\ pop_cond' = [pop_cond EXCEPT ![Target(t)] = @ \ {t}]
    /\ push_cond' = [push_cond EXCEPT ![Target(t)] = @ \ {t}]
    /\ pc' = [pc EXCEPT ![t] = Relock(pc[t])]
    /\ UNCHANGED <<LEN, crew, poisoned, inner, mutex, life, released, calls, ret, waited, cl,
                   pushed, popped, lastPush, snapshot>>

\* ------------------------------------------------------ RingQueue::clone

\* The values of a sequence of initialized slots.
SlotValues(slots) == [i \in 1..Len(slots) |-> slots[i][1]]

\* clone is called on the original: the lock is asked for.
CloneCall(t) ==
    /\ t = Cloner
    /\ t \in crew
    /\ pc[t] = "idle"
    /\ life[Original] = "live"
    /\ life[TheClone] = "none"
    /\ pc' = [pc EXCEPT ![t] = "clone_lock"]
    /\ UNCHANGED <<LEN, crew, poisoned, inner, mutex, pop_cond, push_cond, life, released,
                   calls, ret, waited, cl, pushed, popped, lastPush, snapshot>>

\* A clone that reads the Inner without taking the lock.
CloneNoLock(t) ==
    /\ pc[t] = "clone_lock"
    /\ snapshot' = Contents(inner[Original])
    /\ pc' = [pc EXCEPT ![t] = "clone_begin"]
    /\ UNCHANGED <<LEN, crew, poisoned, inner, mutex, pop_cond, push_cond, life,
                   released, calls, ret, waited, cl, pushed, popped, lastPush>>

\* `self.inner.lock()`
CloneLock(t) ==
    /\ pc[t] = "clone_lock"
    /\ CanLock(Original)
    /\ ~IsPoisoned(Original)
    /\ mutex' = [mutex EXCEPT ![Original] = @ \cup {t}]
    /\ snapshot' = Contents(inner[Original])
    /\ pc' = [pc EXCEPT ![t] = "clone_begin"]
    /\ UNCHANGED <<LEN, crew, poisoned, inner, pop_cond, push_cond, life, released, calls,
                   ret, waited, cl, pushed, popped, lastPush>>

\* Inner::clone begins: `MaybeUninit::uninit_array()` and the range of the
\* loop, from `self.start` and `self.size`.
CloneBegin(t) ==
    /\ pc[t] = "clone_begin"
    /\ cl' = [values |-> [i \in Slots |-> Uninit],
              todo |-> CloneIndices(inner[Original])]
    /\ pc' = [pc EXCEPT ![t] = "clone_loop"]
    /\ UNCHANGED <<LEN, crew, poisoned, inner, mutex, pop_cond, push_cond, life, released,
                   calls, ret, waited, pushed, popped, lastPush, snapshot>>

\* One turn of the loop: `values[i] = clone_initialized_uninit(&self.values[i])`.
CloneStep(t) ==
    /\ pc[t] = "clone_loop"
    /\ cl.todo # <<>>
    /\ LET i == Head(cl.todo)
       IN \E v \in AssumeInit(inner[Original].values[i]) :
             cl' = [values |-> [cl.values EXCEPT ![i] = MaybeInit(v)],
                    todo |-> Tail(cl.todo)]
    /\ UNCHANGED <<LEN, crew, poisoned, inner, mutex, pop_cond, push_cond, life, released, pc,
                   calls, ret, waited, pushed, popped, lastPush, snapshot>>

\* The loop is over: Inner::clone returns `Self { values, start, size }`, the
\* guard is dropped, and RingQueue::clone builds the clone around a new Mutex
\* and two new Condvars.
CloneEnd(t) ==
    /\ pc[t] = "clone_loop"
    /\ cl.todo = <<>>
    /\ inner' = [inner EXCEPT ![TheClone] =
                    [values |-> cl.values,
                     start |-> inner[Original].start,
                     size |-> inner[Original].size]]
    /\ mutex' = [mutex EXCEPT ![Original] = @ \ {t}, ![TheClone] = {}]
    /\ pop_cond' = [pop_cond EXCEPT ![TheClone] = {}]
    /\ push_cond' = [push_cond EXCEPT ![TheClone] = {}]
    /\ life' = [life EXCEPT ![TheClone] = "live"]
    /\ pushed' = [pushed EXCEPT ![TheClone] = SlotValues(snapshot)]
    /\ cl' = NoClone
    /\ pc' = [pc EXCEPT ![t] = "idle"]
    /\ UNCHANGED <<LEN, crew, poisoned, released, calls, ret, waited, popped, lastPush,
                   snapshot>>

\* ----------------------------------------------------------------- drop

\* A queue may be dropped once no thread uses it any more: the clone by its
\* owner between two calls, the original when every thread is through.
MayDrop(q) ==
    /\ life[q] = "live"
    /\ pc[Cloner] = "idle"
    /\ q = Original => \A t \in Workers \cap crew : pc[t] = "idle" /\ ~CallsLeft(t)

\* The queue is dropped: its Mutex, its Inner, the fields of the Inner.
Drop(q) ==
    /\ MayDrop(q)
    /\ life' = [life EXCEPT ![q] = "dropped"]
    /\ released' = [released EXCEPT ![q] = InnerDrop(inner[q])]
    /\ UNCHANGED <<LEN, crew, poisoned, inner, mutex, pop_cond, push_cond, pc, calls, ret,
                   waited, cl, pushed, popped, lastPush, snapshot>>

\* --------------------------------------------------------------- faults

\* The queue whose lock thread t asks for.
LockTarget(t) == IF pc[t] = "clone_lock" THEN Original ELSE Target(t)

\* `.lock().unwrap()` and `.wait_while(..).unwrap()` on a poisoned lock: the
\* lock is taken, found poisoned and given back as the thread panics.
LockPoisoned(t) ==
    /\ pc[t] \in {"push_lock", "pop_lock", "clone_lock"}
    /\ CanLock(LockTarget(t))
    /\ IsPoisoned(LockTarget(t))
    /\ pc' = [pc EXCEPT ![t] = "panicked"]
    /\ UNCHANGED <<LEN, crew, inner, mutex, poisoned, pop_cond, push_cond,
                   life, released, calls, ret, waited, cl, pushed, popped,
                   lastPush, snapshot>>

\* push is called and its `println!` fails to write to stdout: it panics,
\* before the lock is asked for.
PushPrintlnFails(t) ==
    /\ t \in Senders \cup {Cloner}
    /\ t \in crew
    /\ pc[t] = "idle"
    /\ CallsLeft(t)
    /\ life[Target(t)] = "live"
    /\ pc' = [pc EXCEPT ![t] = "panicked"]
    /\ UNCHANGED <<LEN, crew, inner, mutex, poisoned, pop_cond, push_cond,
                   life, released, calls, ret, waited, cl, pushed, popped,
                   lastPush, snapshot>>

\* pop's `println!` fails to write to stdout: it panics while the guard and
\* `ret` are alive; unwinding drops both, and the lock is left poisoned.
PopPrintlnFails(t) ==
    /\ pc[t] = "pop_println"
    /\ mutex' = [mutex EXCEPT ![Target(t)] = @ \ {t}]
    /\ poisoned' = [poisoned EXCEPT ![Target(t)] = TRUE]
    /\ ret' = [ret EXCEPT ![t] = <<>>]
    /\ pc' = [pc EXCEPT ![t] = "panicked"]
    /\ UNCHANGED <<LEN, crew, inner, pop_cond, push_cond, life, released,
                   calls, waited, cl, pushed, popped, lastPush, snapshot>>

\* ------------------------------------------------------------------ spec

Next ==
    \/ \E t \in Threads : PushCall(t)
    \/ \E t \in Threads : PushLock(t)
    \/ \E t \in Threads : PushCheck(t)
    \/ \E t \in Threads : PushInner(t)
    \/ \E t \in Threads : PushNotify(t)
    \/ \E t \in Threads : PushReturn(t)
    \/ \E t \in Threads : PopCall(t)
    \/ \E t \in Threads : PopLock(t)
    \/ \E t \in Threads : PopCheck(t)
    \/ \E t \in Threads : PopInner(t)
    \/ \E t \in Threads : PopNotify(t)
    \/ \E t \in Threads : PopPrintln(t)
    \/ \E t \in Threads : PopReturn(t)
    \/ \E t \in Threads : SpuriousWake(t)
    \/ \E t \in Threads : CloneCall(t)
    \/ \E t \in Threads : CloneLock(t)
    \/ \E t \in Threads : CloneBegin(t)
    \/ \E t \in Threads : CloneStep(t)
    \/ \E t \in Threads : CloneEnd(t)
    \/ \E q \in Queues : Drop(q)

Spec == Init /\ [][Next]_vars

\* The steps thread t takes when it is scheduled. A spurious wake-up is not
\* among them: it may happen, and nothing promises that it does.
Run(t) ==
    \/ PushCall(t) \/ PushCheck(t) \/ PushInner(t) \/ PushNotify(t)
    \/ PushReturn(t)
    \/ PopCall(t) \/ PopCheck(t) \/ PopInner(t) \/ PopNotify(t)
    \/ PopPrintln(t) \/ PopReturn(t)
    \/ CloneCall(t) \/ CloneBegin(t) \/ CloneStep(t) \/ CloneEnd(t)

\* Thread t takes a lock.
Acquire(t) == PushLock(t) \/ PopLock(t) \/ CloneLock(t)

\* Fair scheduling: a thread that can run does run, and a thread asking for
\* a lock that keeps becoming free gets it.
Fairness == \A t \in Threads : WF_vars(Run(t)) /\ SF_vars(Acquire(t))

SpecLive == Init /\ [][Next]_vars /\ Fairness

\* The program with a standard output that may fail.
NextFault ==
    \/ Next
    \/ \E t \in Threads : PushPrintlnFails(t)
    \/ \E t \in Threads : PopPrintlnFails(t)
    \/ \E t \in Threads : LockPoisoned(t)

SpecFault == Init /\ [][NextFault]_vars

\* ------------------------------------------------------- shared notions

IsPrefix(s, t) == Len(s) <= Len(t) /\ \A k \in 1..Len(s) : s[k] = t[k]

\* The slots a sequence of values fills.
InitSlots(vs) == [i \in 1..Len(vs) |-> MaybeInit(vs[i])]

\* The values pushed to q and not yet popped from it, oldest first: the
\* state of the sequential FIFO queue after the same operations.
Pending(q) ==
    [i \in 1..(Len(pushed[q]) - Len(popped[q])) |->
        pushed[q][Len(popped[q]) + i]]

\* Where the cloner is while inside Inner::clone.
ClonePcs == {"clone_begin", "clone_loop"}

\* This step is an Inner::push, or an Inner::pop, on q.
IsPushStep(q) ==
    \E t \in Threads : Target(t) = q /\ pc[t] = "push_inner" /\ pc'[t] # pc[t]
IsPopStep(q) ==
    \E t \in Threads : Target(t) = q /\ pc[t] = "pop_inner" /\ pc'[t] # pc[t]

\* The values of a sequence, as a set.
Values(vs) == {vs[k] : k \in 1..Len(vs)}

\* The values sender s pushes, in the order it pushes them.
Sent(s) == [k \in 1..NOps |-> PushValue(s, k - 1)]

\* The subsequence of vs that sender s pushed.
FromSender(s, vs) == SelectSeq(vs, LAMBDA v : v \in Values(Sent(s)))

\* Every worker of the crew has made all its calls.
WorkersDone == \A t \in Workers \cap crew : pc[t] = "idle" /\ ~CallsLeft(t)

\* --------------------------------------------------------------- claims

\* C1: whatever the interleaving of the threads' push and pop calls, the
\* original behaves as a sequential FIFO queue of at most LEN elements whose
\* operations take effect one at a time under the lock: at most one thread
\* is between lock and unlock, the k-th value popped is the k-th value
\* pushed, the stored window is the values pushed and not yet popped, in
\* order, and a pop returns the value it took.
C1_LinearizableFifo ==
    /\ Cardinality(mutex[Original]) <= 1
    /\ Len(pushed[Original]) - Len(popped[Original]) <= LEN
    /\ IsPrefix(popped[Original], pushed[Original])
    /\ Contents(inner[Original]) = InitSlots(Pending(Original))
    /\ \A t \in Workers :
          ret[t] # <<>> =>
             /\ t \in mutex[Original]
             /\ ret[t] = <<popped[Original][Len(popped[Original])]>>

\* C1's case: with LEN = 2 the two senders' values went in interleaved, the
\* first of them has been popped and the window wraps past the end of the array.
C1_Witness ==
    /\ LEN = 2
    /\ crew = Workers
    /\ Len(pushed[Original]) >= 3
    /\ pushed[Original][1] = PushValue("Sender2", 0)
    /\ pushed[Original][2] = PushValue("Sender1", 0)
    /\ inner[Original].start = 1
    /\ inner[Original].size = 2
    /\ popped[Original] = <<PushValue("Sender2", 0)>>

\* C2: the values popped from the original that came from one sender are in
\* the order that sender pushed them, whatever the interleaving; every value
\* popped came from a sender of the crew; once all have returned, each
\* sender's values have all come out, and with a single sender the popped
\* sequence is the pushed sequence.
C2_PerProducerOrder ==
    /\ \A s \in Senders : IsPrefix(FromSender(s, popped[Original]), Sent(s))
    /\ Values(popped[Original]) \subseteq
          UNION {Values(Sent(s)) : s \in Senders \cap crew}
    /\ WorkersDone /\ LEN >= 1 =>
          \A s \in Senders \cap crew : FromSender(s, popped[Original]) = Sent(s)
    /\ Senders \cap crew = {"Sender1"} =>
          /\ IsPrefix(popped[Original], Sent("Sender1"))
          /\ WorkersDone /\ LEN >= 1 => popped[Original] = Sent("Sender1")

\* C2's case: two senders on a queue of one slot, one of them woken after
\* blocking on the full queue, and values of both already popped, those of
\* Sender2 first.
C2_Witness ==
    /\ LEN = 1
    /\ crew = Workers
    /\ \E s \in Senders : waited[s] /\ pc[s] = "push_inner"
    /\ Len(popped[Original]) >= 2
    /\ popped[Original][1] = PushValue("Sender2", 0)
    /\ popped[Original][2] = PushValue("Sender1", 0)

\* C3: a queue never holds more than LEN elements; a push that finds the
\* queue full waits, releasing the lock and leaving the Inner as it is;
\* Inner::push runs only with room left, writes a vacant slot and leaves the
\* occupied window as it was; and a push returns only with its value stored.
C3_CapacityEnforced ==
    [][\A q \in Queues :
          /\ inner[q].size <= LEN
          /\ inner'[q].size <= LEN
          /\ \A t \in Threads :
                /\ (/\ Target(t) = q
                    /\ pc[t] = "push_check"
                    /\ pc'[t] # pc[t]
                    /\ inner[q].size = LEN)
                   => /\ pc'[t] = "push_wait"
                      /\ t \notin mutex'[q]
                      /\ inner'[q] = inner[q]
                /\ (Target(t) = q /\ pc[t] = "push_return" /\ pc'[t] # pc[t])
                   => PushValue(t, calls[t]) \in Values(pushed[q])
          /\ IsPushStep(q) =>
                /\ inner[q].size < LEN
                /\ \A i \in Slots :
                      inner'[q].values[i] # inner[q].values[i]
                         => inner[q].values[i] = Uninit
                /\ \A i \in 1..inner[q].size :
                      Contents(inner'[q])[i] = Contents(inner[q])[i]
                /\ inner'[q].size = inner[q].size + 1
      ]_vars

\* C3's case: a sender that blocked on the full queue of two slots has been
\* woken, found room and filled the queue again.
C3_Witness ==
    /\ LEN = 2
    /\ inner[Original].size = LEN
    /\ \E t \in Senders : waited[t] /\ pc[t] = "push_return"

\* C4: a pop that finds the queue empty waits, releasing the lock, leaving
\* the Inner as it is and holding no value; Inner::pop runs only on a queue
\* that holds an element, whose first slot is initialized; and every value
\* a pop takes or returns is one that was pushed to that queue.
C4_BlockingPop ==
    [][\A q \in Queues :
          /\ \A t \in Threads :
                /\ (/\ Target(t) = q
                    /\ pc[t] = "pop_check"
                    /\ pc'[t] # pc[t]
                    /\ inner[q].size = 0)
                   => /\ pc'[t] = "pop_wait"
                      /\ t \notin mutex'[q]
                      /\ inner'[q] = inner[q]
                      /\ ret'[t] = <<>>
                /\ (Target(t) = q /\ ret'[t] # <<>>)
                   => ret'[t][1] \in Values(pushed'[q])
          /\ IsPopStep(q) =>
                /\ inner[q].size > 0
                /\ Len(pushed[q]) > Len(popped[q])
                /\ inner[q].values[inner[q].start] # Uninit
                /\ inner'[q].size = inner[q].size - 1
          /\ Values(popped'[q]) \subseteq Values(pushed'[q])
      ]_vars

\* C4's case: a receiver that blocked on the empty queue has been woken,
\* found an element and is returning it.
C4_Witness ==
    \E t \in Receivers :
       /\ waited[t]
       /\ pc[t] = "pop_return"
       /\ ret[t] \in {<<v>> : v \in Values(pushed[Original])}

\* C5: with LEN >= 1 and as many push calls as pop calls on the original
\* (both crews), under fair scheduling and with spurious wake-ups possible,
\* every call of every worker returns: no wake-up is lost and no thread is
\* left blocked.
C5_EveryCallReturns == <>(LEN = 0 \/ WorkersDone)

\* C5's case: two senders and two receivers on a queue of one slot have all
\* returned from all their calls.
C5_Witness ==
    /\ LEN = 1
    /\ crew = Workers
    /\ WorkersDone
    /\ Len(popped[Original]) = NOps * Cardinality(Senders)

\* C6: on the freshly created original with LEN >= 1, a push does not wait;
\* a pop that finds the one value pushed so far does not wait either,
\* returns that value and leaves the queue empty.
C6_FreshRoundTrip ==
    [][LEN >= 1 =>
          \A t \in Workers :
             /\ (/\ pc[t] = "push_check"
                 /\ pc'[t] # pc[t]
                 /\ pushed[Original] = <<>>)
                => pc'[t] = "push_inner"
             /\ (/\ pc[t] = "push_inner"
                 /\ pc'[t] # pc[t]
                 /\ pushed[Original] = <<>>)
                => Contents(inner'[Original])
                      = <<MaybeInit(PushValue(t, calls[t]))>>
             /\ (/\ pc[t] = "pop_check"
                 /\ pc'[t] # pc[t]
                 /\ Len(pushed[Original]) = 1
                 /\ popped[Original] = <<>>)
                => pc'[t] = "pop_inner"
             /\ (/\ pc[t] = "pop_inner"
                 /\ pc'[t] # pc[t]
                 /\ Len(pushed[Original]) = 1
                 /\ popped[Original] = <<>>)
                => /\ ret'[t] = <<pushed[Original][1]>>
                   /\ inner'[Original].size = 0
      ]_vars

\* C6's case: on a queue of one slot, one push and then one pop, neither
\* having waited, and the pop is returning.
C6_Witness ==
    /\ LEN = 1
    /\ Len(pushed[Original]) = 1
    /\ Len(popped[Original]) = 1
    /\ \A t \in Threads : ~waited[t]
    /\ \E t \in Receivers : pc[t] = "pop_return" /\ calls[t] = 0
    /\ \E t \in Senders : pc[t] = "idle" /\ calls[t] = 1

\* C7 as the spec states it: whatever the queue held when push(v) was
\* called, the pop that follows the push, with no operation between them,
\* returns v.
C7_RoundTripAnyQueue ==
    [][\A q \in Queues :
          (IsPopStep(q) /\ lastPush[q])
             => popped'[q][Len(popped'[q])] = pushed[q][Len(pushed[q])]
      ]_vars

\* C7, amended: when push(v) was made on an empty queue, the pop that
\* follows the push, with no operation between them, returns v and leaves
\* the queue empty, wherever in the array the window starts.
C7_RoundTripFromEmpty ==
    [][\A q \in Queues :
          (IsPopStep(q) /\ lastPush[q] /\ Len(pushed[q]) = Len(popped[q]) + 1)
             => /\ popped'[q][Len(popped'[q])] = pushed[q][Len(pushed[q])]
                /\ inner'[q].size = 0
      ]_vars

\* C7's case: a value was pushed to the empty original whose window starts
\* at slot 1 of 2, and the pop that followed has returned it.
C7_Witness ==
    /\ LEN = 2
    /\ Len(pushed[Original]) = 2
    /\ popped[Original] = pushed[Original]
    /\ ~lastPush[Original]
    /\ inner[Original].start = 0
    /\ \E t \in Receivers : pc[t] = "pop_notify" /\ calls[t] = 1

\* C8: while the cloner is inside Inner::clone it alone holds the original's
\* lock and the original's contents stay what they were when it took the
\* lock; the clone it builds holds, in pop order, exactly those contents;
\* and a thread blocked in a wait holds no lock, so that blocked threads do
\* not keep the clone from being taken.
C8_CloneIsSnapshot ==
    /\ pc[Cloner] \in ClonePcs =>
          /\ mutex[Original] = {Cloner}
          /\ Contents(inner[Original]) = snapshot
    /\ (/\ life[TheClone] = "live"
        /\ popped[TheClone] = <<>>
        /\ Len(pushed[TheClone]) = Len(snapshot))
       => Contents(inner[TheClone]) = snapshot
    /\ \A q \in Queues : (pop_cond[q] \cup push_cond[q]) \cap mutex[q] = {}

\* C8's case: the cloner has copied a non-empty original while the sender
\* was blocked in push on it and the receiver was asking for the lock.
C8_Witness ==
    /\ pc[Cloner] = "clone_loop"
    /\ cl.todo = <<>>
    /\ snapshot # <<>>
    /\ \E t \in Senders : pc[t] = "push_wait"
    /\ \E t \in Receivers : pc[t] = "pop_lock"

\* This step is taken by a worker, on the original.
WorkerStep == \E t \in Workers : pc'[t] # pc[t]

\* This step is taken by the cloner on its clone: a step of a push or a pop,
\* or the clone's drop.
ClonerStep == pc'[Cloner] # pc[Cloner] \/ life'[TheClone] # life[TheClone]

\* C9: once the clone exists, a step of a worker's push or pop on the
\* original leaves the clone's Inner, lock and waiting threads as they are
\* and does not move the cloner; a step of the cloner's push or pop on the
\* clone leaves the original's Inner, lock and waiting threads as they are
\* and moves no worker; and what is popped from the clone is the snapshot's
\* contents in order, then the values pushed to the clone.
C9_CloneIndependent ==
    [][life[TheClone] = "live" =>
          /\ WorkerStep =>
                /\ inner'[TheClone] = inner[TheClone]
                /\ mutex'[TheClone] = mutex[TheClone]
                /\ pop_cond'[TheClone] = pop_cond[TheClone]
                /\ push_cond'[TheClone] = push_cond[TheClone]
                /\ pc'[Cloner] = pc[Cloner]
          /\ ClonerStep =>
                /\ inner'[Original] = inner[Original]
                /\ mutex'[Original] = mutex[Original]
                /\ pop_cond'[Original] = pop_cond[Original]
                /\ push_cond'[Original] = push_cond[Original]
                /\ \A t \in Workers : pc'[t] = pc[t]
          /\ IsPrefix(SlotValues(snapshot), pushed'[TheClone])
          /\ IsPrefix(popped'[TheClone], pushed'[TheClone])
          /\ Contents(inner'[TheClone]) = InitSlots(Pending(TheClone)')
      ]_vars

\* C9's case: the clone was taken when the original held the sender's first
\* value; the original then took a second push and gave the first value to
\* the receiver; the cloner popped the same first value from its clone and
\* is now blocked in a second pop on the clone, which holds nothing more.
C9_Witness ==
    /\ life[TheClone] = "live"
    /\ snapshot = <<MaybeInit(PushValue("Sender1", 0))>>
    /\ pushed[Original] = Sent("Sender1")
    /\ popped[Original] = <<PushValue("Sender1", 0)>>
    /\ popped[TheClone] = <<PushValue("Sender1", 0)>>
    /\ pc[Cloner] = "pop_wait"
    /\ pop_cond[TheClone] = {Cloner}

\* C10: a dropped queue has released exactly the elements of its occupied
\* window, each once.
C10_DropReleasesOccupied ==
    \A q \in Queues :
       life[q] = "dropped" =>
          /\ Len(released[q]) = inner[q].size
          /\ Values(released[q]) = Values(SlotValues(Contents(inner[q])))

\* C11: a thread that asks for a poisoned lock, in push, pop or clone, or
\* coming back from a wait, panics in that very step: the Inner, the
\* histories and the queues are left as they are, the thread returns from no
\* call and holds no value; and a thread that has panicked never runs again.
C11_PoisonedLockFaults ==
    [][\A t \in Threads :
          /\ (/\ pc[t] \in {"push_lock", "pop_lock", "clone_lock"}
              /\ poisoned[LockTarget(t)]
              /\ pc'[t] # pc[t])
             => /\ pc'[t] = "panicked"
                /\ inner' = inner
                /\ pushed' = pushed
                /\ popped' = popped
                /\ life' = life
                /\ calls'[t] = calls[t]
                /\ ret'[t] = <<>>
                /\ t \notin mutex'[LockTarget(t)]
          /\ pc[t] = "panicked" => pc'[t] = "panicked"
      ]_vars

\* C11's case: the original's lock is poisoned, the cloner has panicked in
\* clone without building a clone, and the sender has panicked too with its
\* first value stored, that is in a later push.
C11_Witness ==
    /\ poisoned[Original]
    /\ pc[Cloner] = "panicked"
    /\ life[TheClone] = "none"
    /\ pc["Sender1"] = "panicked"
    /\ pushed[Original] = <<PushValue("Sender1", 0)>>

\* C12: a failure of the standard output during a push or a pop leaves the
\* queue working: no thread faults and no lock is left unusable.
C12_SinkFailureHarmless ==
    /\ \A q \in Queues : ~poisoned[q]
    /\ \A t \in Threads : pc[t] # "panicked"

\* The indices of the occupied window of an Inner: `size` slots from `start`,
\* wrapping at LEN.
Window(in) == {(in.start + k) % LEN : k \in 0..(in.size - 1)}

\* C13: for a capacity of at least 1, in every reachable state of either
\* queue, 0 <= start < LEN, 0 <= size <= LEN, the slots of the window of
\* `size` slots from `start` (wrapping) hold a value, and every other slot
\* is vacant.
C13_OccupiedWindow ==
    LEN >= 1 =>
        \A q \in Queues :
            /\ inner[q].start \in 0..(LEN - 1)
            /\ inner[q].size \in 0..LEN
            /\ \A i \in Slots :
                   i \in Window(inner[q]) <=> inner[q].values[i] # Uninit

\* C13's case: after a pop and two more pushes, a full window that starts at
\* slot 1 and wraps to slot 0.
C13_Witness ==
    /\ LEN = 2
    /\ inner[Original].start = 1
    /\ inner[Original].size = 2
    /\ Len(popped[Original]) = 1

\* ------------------------------------------- Inner from any valid window

\* The k-th element, from 0, of an Inner that is not empty at the outset: a
\* value of the decade of a thread that never pushes.
SeedValue(k) == PushValue("Receiver1", k)

\* The Inner that holds SeedValue(0), ..., SeedValue(size - 1) in the window
\* of `size` slots from `start`: what pushes and pops leave behind when
\* `start` pops came before the last `size` pushes.
InnerAt(start, size) ==
    [values |-> [i \in Slots |->
                    IF \E k \in 0..(size - 1) : (start + k) % LEN = i
                    THEN MaybeInit(SeedValue((i + LEN - start) % LEN))
                    ELSE Uninit],
     start |-> start,
     size |-> size]

\* A sender, a receiver and the cloner, each with one call left, start on an
\* original whose Inner is any valid window: every `start` in [0, LEN), every
\* `size` in [0, LEN].
InitInner ==
    /\ LEN \in 1..MaxLEN
    /\ crew = {"Sender1", "Receiver1", Cloner}
    /\ \E start \in 0..(LEN - 1), size \in 0..LEN :
          /\ inner = [q \in Queues |->
                         IF q = Original THEN InnerAt(start, size)
                         ELSE InnerDefault]
          /\ pushed = [q \in Queues |->
                          IF q = Original THEN [k \in 1..size |-> SeedValue(k - 1)]
                          ELSE <<>>]
    /\ mutex = [q \in Queues |-> {}]
    /\ poisoned = [q \in Queues |-> FALSE]
    /\ pop_cond = [q \in Queues |-> {}]
    /\ push_cond = [q \in Queues |-> {}]
    /\ life = [q \in Queues |-> IF q = Original THEN "live" ELSE "none"]
    /\ released = [q \in Queues |-> <<>>]
    /\ pc = [t \in Threads |-> "idle"]
    /\ calls = [t \in Threads |->
                   IF t = Cloner THEN NCloneOps - 1 ELSE NOps - 1]
    /\ ret = [t \in Threads |-> <<>>]
    /\ waited = [t \in Threads |-> FALSE]
    /\ cl = NoClone
    /\ popped = [q \in Queues |-> <<>>]
    /\ lastPush = [q \in Queues |-> FALSE]
    /\ snapshot = <<>>

SpecInner == InitInner /\ [][Next]_vars

\* C14: for every start in [0, LEN) and size in [0, LEN), the index of
\* Inner::push is (start + size) mod LEN and lies in [0, LEN), and neither
\* `LEN - start` nor `size - (LEN - start)`, where it is computed, goes below
\* zero; and every Inner::push writes the pushed value at that index, adds
\* one to size, and leaves start and every other slot as they were.
C14_PushIndex ==
    [][/\ \A start \in 0..(LEN - 1), size \in 0..(LEN - 1) :
             LET in == InnerAt(start, size)
             IN /\ PushEnd(in) = (start + size) % LEN
                /\ PushEnd(in) \in Slots
                /\ LEN - start >= 0
                /\ size >= LEN - start => size - (LEN - start) >= 0
       /\ \A t \in Threads :
             pc[t] = "push_inner" /\ pc'[t] # pc[t] =>
                LET in == inner[Target(t)]
                    out == inner'[Target(t)]
                    end == (in.start + in.size) % LEN
                IN /\ in.size < LEN
                   /\ out.values[end] = MaybeInit(PushValue(t, calls[t]))
                   /\ out.size = in.size + 1
                   /\ out.start = in.start
                   /\ \A i \in Slots \ {end} : out.values[i] = in.values[i]
      ]_vars

\* C14's case: a push has just written slot 0 of an Inner of two slots whose
\* window began at slot 1 with one element: the index wrapped.
C14_Witness ==
    /\ LEN = 2
    /\ pc["Sender1"] = "push_notify"
    /\ popped[Original] = <<>>
    /\ inner[Original].start = 1
    /\ inner[Original].size = 2
    /\ inner[Original].values[0] = MaybeInit(PushValue("Sender1", NOps - 1))
    /\ inner[Original].values[1] = MaybeInit(SeedValue(0))

\* C15: every Inner::pop runs on a size above 0, returns the element that
\* slot `start` held, leaves that slot vacant, sets start to
\* (start + 1) mod LEN, takes one from size, and leaves every other slot as
\* it was.
C15_PopStep ==
    [][\A t \in Threads :
          pc[t] = "pop_inner" /\ pc'[t] # pc[t] =>
             LET in == inner[Target(t)]
                 out == inner'[Target(t)]
             IN /\ in.size > 0
                /\ in.values[in.start] # Uninit
                /\ MaybeInit(ret'[t][1]) = in.values[in.start]
                /\ out.values[in.start] = Uninit
                /\ out.start = (in.start + 1) % LEN
                /\ (in.start = LEN - 1 => out.start = 0)
                /\ out.size = in.size - 1
                /\ \A i \in Slots \ {in.start} : out.values[i] = in.values[i]
      ]_vars

\* C15's case: a pop has just taken the first element of a full window that
\* began at the last slot of two: start wrapped from 1 to 0, slot 1 is vacant
\* and slot 0 still holds the second element.
C15_Witness ==
    /\ LEN = 2
    /\ pc["Receiver1"] = "pop_notify"
    /\ ret["Receiver1"] = <<SeedValue(0)>>
    /\ inner[Original].start = 0
    /\ inner[Original].size = 1
    /\ inner[Original].values[1] = Uninit
    /\ inner[Original].values[0] = MaybeInit(SeedValue(1))

\* C16: for every start in [0, LEN) and size in [0, LEN], Inner::clone goes
\* over exactly the indices of the window, each once; it reads no vacant slot
\* of the original; and the Inner it returns has the original's start and
\* size, at each index of the window the original's element, and every other
\* slot vacant.
C16_CloneWindow ==
    [][/\ \A start \in 0..(LEN - 1), size \in 0..LEN :
             LET in == InnerAt(start, size)
             IN /\ Values(CloneIndices(in)) = Window(in)
                /\ Len(CloneIndices(in)) = size
       /\ pc[Cloner] = "clone_loop" /\ cl.todo # <<>> =>
             inner[Original].values[Head(cl.todo)] # Uninit
       /\ life[TheClone] = "none" /\ life'[TheClone] = "live" =>
             LET in == inner[Original]
                 out == inner'[TheClone]
             IN /\ out.start = in.start
                /\ out.size = in.size
                /\ \A i \in Slots :
                      out.values[i] =
                         IF i \in Window(in) THEN in.values[i] ELSE Uninit
      ]_vars

\* C16's case: the clone of a full window that began at slot 1 of two and
\* wrapped to slot 0, taken before any push or pop.
C16_Witness ==
    /\ LEN = 2
    /\ life[TheClone] = "live"
    /\ \A t \in Threads : pc[t] = "idle"
    /\ popped[Original] = <<>>
    /\ Len(pushed[Original]) = 2
    /\ inner[TheClone].start = 1
    /\ inner[TheClone].size = 2
    /\ inner[TheClone].values[1] = MaybeInit(SeedValue(0))
    /\ inner[TheClone].values[0] = MaybeInit(SeedValue(1))

\* The threads that leave the wait on a condition in this step.
Left(cond, q) == cond[q] \ cond'[q]

\* The state of Original's and the clone's conditions is kept, but for the
\* threads in `gone` that leave the condition `cond` of q.
OnlyLeave(cond, q, gone) ==
    /\ cond'[q] = cond[q] \ gone
    /\ \A o \in Queues \ {q} : cond'[o] = cond[o]

\* C17: a push signals once, on pop_cond, between its Inner::push and the
\* release of the lock, and a pop once, on push_cond, between its Inner::pop
\* and the release: the signal step is entered only from the mutation, is
\* taken with the lock held, wakes exactly one waiter of the other kind when
\* there is one and nobody of its own kind, and is the only way to the
\* return; every other step of a thread, and so every step of an operation
\* that has not yet changed the Inner, wakes nobody.
C17_OneSignalPerOperation ==
    [][\A t \in Threads : pc'[t] # pc[t] =>
          LET q == Target(t)
              others == Threads \ {t}
          IN /\ pc'[t] = "push_notify" => pc[t] = "push_inner" /\ inner'[q] # inner[q]
             /\ pc'[t] = "pop_notify" => pc[t] = "pop_inner" /\ inner'[q] # inner[q]
             /\ pc'[t] = "push_return" => pc[t] = "push_notify"
             /\ pc'[t] = "pop_println" => pc[t] = "pop_notify"
             /\ pc'[t] = "idle" /\ calls'[t] # calls[t] =>
                   /\ pc[t] \in {"push_return", "pop_return"}
                   /\ t \in mutex[q] /\ t \notin mutex'[q]
             /\ CASE pc[t] = "push_notify" ->
                       /\ t \in mutex[q] /\ t \in mutex'[q]
                       /\ inner' = inner
                       /\ push_cond' = push_cond
                       /\ OnlyLeave(pop_cond, q, Left(pop_cond, q))
                       /\ Cardinality(Left(pop_cond, q)) =
                             IF pop_cond[q] = {} THEN 0 ELSE 1
                       /\ \A w \in others :
                             pc'[w] # pc[w] => w \in Left(pop_cond, q)
                  [] pc[t] = "pop_notify" ->
                       /\ t \in mutex[q] /\ t \in mutex'[q]
                       /\ inner' = inner
                       /\ pop_cond' = pop_cond
                       /\ OnlyLeave(push_cond, q, Left(push_cond, q))
                       /\ Cardinality(Left(push_cond, q)) =
                             IF push_cond[q] = {} THEN 0 ELSE 1
                       /\ \A w \in others :
                             pc'[w] # pc[w] => w \in Left(push_cond, q)
                  [] pc[t] \in {"push_wait", "pop_wait"} ->
                       \/ \E n \in others :
                             /\ pc[n] = IF pc[t] = "pop_wait" THEN "push_notify"
                                        ELSE "pop_notify"
                             /\ pc'[n] # pc[n]
                             /\ Target(n) = q
                       \/ /\ \A w \in others : pc'[w] = pc[w]
                          /\ OnlyLeave(pop_cond, q, {t})
                          /\ OnlyLeave(push_cond, q, {t})
                  [] OTHER ->
                       /\ \A w \in others : pc'[w] = pc[w]
                       /\ \A o \in Queues :
                             /\ Left(pop_cond, o) = {}
                             /\ Left(push_cond, o) = {}
      ]_vars

\* C17's case: two receivers waited on the empty original, a push has just
\* signalled, and one of them was woken while the other still waits.
C17_Witness ==
    /\ pc["Sender1"] = "push_return"
    /\ "Sender1" \in mutex[Original]
    /\ pc["Receiver1"] = "pop_lock"
    /\ waited["Receiver1"]
    /\ pc["Receiver2"] = "pop_wait"
    /\ pop_cond[Original] = {"Receiver2"}
    /\ pushed[Original] = <<PushValue("Sender1", 0)>>

\* C18: a thread that comes back from its wait takes the lock again and
\* evaluates its predicate under it, as on its first turn; when the
\* predicate still blocks it goes back to waiting, releases the lock and
\* leaves the Inner as it was; Inner::pop is entered only from a check that
\* found size > 0 and Inner::push only from one that found size < LEN, and
\* so they run on such an Inner only.
C18_RecheckAfterWake ==
    [][\A t \in Threads : pc'[t] # pc[t] =>
          LET q == Target(t)
          IN /\ pc[t] = "pop_wait" => pc'[t] = "pop_lock"
             /\ pc[t] = "push_wait" => pc'[t] = "push_lock"
             /\ pc[t] = "pop_lock" => pc'[t] = "pop_check" /\ t \in mutex'[q]
             /\ pc[t] = "push_lock" => pc'[t] = "push_check" /\ t \in mutex'[q]
             /\ pc[t] = "pop_check" =>
                   /\ t \in mutex[q]
                   /\ inner' = inner
                   /\ IF inner[q].size = 0
                      THEN /\ pc'[t] = "pop_wait"
                           /\ t \in pop_cond'[q]
                           /\ t \notin mutex'[q]
                      ELSE pc'[t] = "pop_inner" /\ t \in mutex'[q]
             /\ pc[t] = "push_check" =>
                   /\ t \in mutex[q]
                   /\ inner' = inner
                   /\ IF inner[q].size = LEN
                      THEN /\ pc'[t] = "push_wait"
                           /\ t \in push_cond'[q]
                           /\ t \notin mutex'[q]
                      ELSE pc'[t] = "push_inner" /\ t \in mutex'[q]
             /\ pc'[t] = "pop_inner" => pc[t] = "pop_check"
             /\ pc'[t] = "push_inner" => pc[t] = "push_check"
             /\ pc[t] = "pop_inner" => inner[q].size > 0
             /\ pc[t] = "push_inner" => inner[q].size < LEN
      ]_vars

\* C18's case: a receiver that waited is back at its check under the lock,
\* and the one element pushed meanwhile has been taken by the other
\* receiver: the original is empty again.
C18_Witness ==
    /\ LEN >= 1
    /\ pc["Receiver1"] = "pop_check"
    /\ waited["Receiver1"]
    /\ "Receiver1" \in mutex[Original]
    /\ inner[Original].size = 0
    /\ popped[Original] = <<PushValue("Sender1", 0)>>
    /\ calls["Receiver2"] = 1

\* How many times x occurs in the sequence s.
Count(x, s) == Cardinality({k \in 1..Len(s) : s[k] = x})

\* C19: in every state and for either queue, size is the number of
\* Inner::push calls made minus the number of Inner::pop calls made (a clone
\* counting the elements it was built with as pushed), and every value occurs
\* among the values popped and in the window together as often as among the
\* values pushed: none is lost, doubled or made up.
C19_Conservation ==
    \A q \in Queues :
        LET in == InitSlots(pushed[q])
            out == InitSlots(popped[q])
            held == Contents(inner[q])
        IN /\ inner[q].size = Len(pushed[q]) - Len(popped[q])
           /\ \A x \in Values(in) \cup Values(out) \cup Values(held) :
                  Count(x, out) + Count(x, held) = Count(x, in)

\* C19's case: four pushes and three pops went through the one slot of an
\* original of capacity 1, the window wrapping at each of them, and the
\* original holds the fourth value.
C19_Witness ==
    /\ LEN = 1
    /\ Len(pushed[Original]) = NOps + NOps
    /\ Len(popped[Original]) = NOps + NOps - 1
    /\ inner[Original].size = 1
    /\ \A t \in Threads : pc[t] = "idle"

\* Where a thread is from its Inner::push or Inner::pop to its return.
InnerPcs ==
    {"push_inner", "push_notify", "push_return",
     "pop_inner", "pop_notify", "pop_println", "pop_return"}

\* C20: with LEN = 0 either queue is always both empty and full, for push
\* and for pop; no thread ever gets past its check to Inner::push or
\* Inner::pop, so nothing is ever pushed or popped, `start` is never
\* advanced modulo LEN, and no call ever returns.
C20_ZeroCapacityBlocks ==
    LEN = 0 =>
        /\ \A q \in Queues :
              /\ PopBlocked(inner[q]) /\ PushBlocked(inner[q])
              /\ inner[q] = InnerDefault
              /\ pushed[q] = <<>> /\ popped[q] = <<>>
        /\ \A t \in Threads : pc[t] \notin InnerPcs /\ calls[t] = 0

\* C20's case: with LEN = 0 both senders and both receivers have called,
\* evaluated their predicates and wait.
C20_Witness ==
    /\ LEN = 0
    /\ \A t \in Senders : pc[t] = "push_wait" /\ t \in push_cond[Original]
    /\ \A t \in Receivers : pc[t] = "pop_wait" /\ t \in pop_cond[Original]
    /\ \A t \in Workers : waited[t]
    /\ mutex[Original] = {}

====
